---- MODULE Spec2Model ----
(***************************************************************************)
(* EditListingDetailsForm.js: the details step of the listing wizard.      *)
(*                                                                         *)
(* The state is the props the component was mounted with (held in `props`, *)
(* constant over a behaviour), the values of the final-form fields the     *)
(* component registers (`values`), and the observable effects of the       *)
(* listing-type handler (`callLog`, `threw`).  What the component renders  *)
(* is a pure function of props and values and is modelled by operators     *)
(* that carry the names of the source's components and locals.             *)
(*                                                                         *)
(* JavaScript values: `undefined` is the string Undefined; a value that    *)
(* may be null is None (<<>>) or Some(v) (<<v>>); strings are TLA+         *)
(* strings, arrays are sequences.                                          *)
(***************************************************************************)
EXTENDS Integers, Sequences, FiniteSets, TLC

VARIABLES props, values, callLog, last, threw

vars == <<props, values, callLog, last, threw>>

----------------------------------------------------------------------------
(* Bounds of the model *)

\* longest list of selectable listing types
MaxTypes == 2
\* most listing-type selections in one behaviour
MaxSelections == 3
\* longest listingExtendedDataConfig
MaxFields == 2
\* how far an initial title may exceed TITLE_MAX_LENGTH
MaxTitleOver == 1

----------------------------------------------------------------------------
(* JavaScript values *)

Undefined == "undefined"
None == <<>>
Some(v) == <<v>>
Get(o) == o[1]

RECURSIVE Repeat(_)
Repeat(n) == IF n = 0 THEN "" ELSE "a" \o Repeat(n - 1)

TITLE_MAX_LENGTH == 60

----------------------------------------------------------------------------
(* ErrorMessage *)

\* `fetchErrors || {}` followed by the destructuring: a null container reads
\* every flag as undefined (falsy)
fetchErrorFlags(fetchErrors) ==
    IF fetchErrors = None
    THEN [updateListingError |-> FALSE, createListingDraftError |-> FALSE,
          showListingsError |-> FALSE]
    ELSE Get(fetchErrors)

\* Variant: createListingDraftError tested before updateListingError
ErrorMessageCreateFirst(fetchErrors) ==
    LET f == fetchErrorFlags(fetchErrors)
    IN  IF f.createListingDraftError
        THEN Some("EditListingDetailsForm.createListingDraftError")
        ELSE IF f.updateListingError THEN Some("EditListingDetailsForm.updateFailed")
        ELSE IF f.showListingsError THEN Some("EditListingDetailsForm.showListingFailed")
        ELSE None

\* The message ErrorMessage shows in its <p>: Some(message id), or None when
\* it returns null
ErrorMessage(fetchErrors) ==
    LET f == fetchErrorFlags(fetchErrors)
        errorMessage ==
            IF f.updateListingError THEN Some("EditListingDetailsForm.updateFailed")
            ELSE IF f.createListingDraftError
                 THEN Some("EditListingDetailsForm.createListingDraftError")
            ELSE IF f.showListingsError
                 THEN Some("EditListingDetailsForm.showListingFailed")
            ELSE None
    IN  errorMessage

----------------------------------------------------------------------------
(* FieldSelectListingType *)

\* `listingTypes?.length`: the length of the list, undefined (here -1, which
\* like undefined is not > 1) when the list is missing
optLength(listingTypes) ==
    IF listingTypes = None THEN -1 ELSE Len(Get(listingTypes))

\* Variant: a single listing type counts as multiple (>= 1 for > 1)
hasMultipleListingTypesAtLeastOne(listingTypes) == optLength(listingTypes) >= 1

hasMultipleListingTypes(listingTypes) == optLength(listingTypes) > 1

\* Variant: the select is rendered whether or not a listing type exists
renderModeIgnoresExisting(listingTypes, hasExistingListingType) ==
    IF hasMultipleListingTypes(listingTypes) THEN "select" ELSE "hidden"

\* Which branch of the conditional at the return the component renders
renderMode(listingTypes, hasExistingListingType) ==
    IF hasMultipleListingTypes(listingTypes) /\ ~hasExistingListingType
    THEN "select"
    ELSE IF hasMultipleListingTypes(listingTypes) /\ hasExistingListingType
         THEN "readonly"
         ELSE "hidden"

\* Variant: the placeholder option is not disabled
selectOptionsPlaceholderEnabled(listingTypes) ==
    <<[value |-> "", disabled |-> FALSE, label |-> "EditListingDetailsForm.listingTypePlaceholder"]>>
    \o [i \in 1..Len(listingTypes) |->
          [value |-> listingTypes[i].listingType, disabled |-> FALSE,
           label |-> listingTypes[i].label]]

\* The <option> children of the FieldSelect: the disabled placeholder, then
\* one option per configuration, in the order of the list
selectOptions(listingTypes) ==
    <<[value |-> "", disabled |-> TRUE, label |-> "EditListingDetailsForm.listingTypePlaceholder"]>>
    \o [i \in 1..Len(listingTypes) |->
          [value |-> listingTypes[i].listingType, disabled |-> FALSE,
           label |-> listingTypes[i].label]]

\* What FieldSelectListingType renders: the select with its options (select
\* mode), the <p> showing the current value (readonly mode), and the names of
\* the FieldHidden inputs
FieldSelectListingType(name, listingTypes, hasExistingListingType, formValues) ==
    LET mode == renderMode(listingTypes, hasExistingListingType)
    IN  CASE mode = "select" ->
               [select |-> Some([name |-> name, options |-> selectOptions(Get(listingTypes)),
                                 validate |-> "EditListingDetailsForm.listingTypeRequired"]),
                selectedValue |-> None,
                hidden |-> <<"transactionProcessAlias", "unitType">>]
          [] mode = "readonly" ->
               [select |-> None,
                selectedValue |-> Some(formValues[name]),
                hidden |-> <<name, "transactionProcessAlias", "unitType">>]
          [] OTHER ->
               [select |-> None,
                selectedValue |-> None,
                hidden |-> <<name, "transactionProcessAlias", "unitType">>]

\* Array.prototype.find as the index of the first match, 0 for undefined
RECURSIVE findFrom(_, _, _)
findFrom(listingTypes, value, i) ==
    IF i > Len(listingTypes) THEN 0
    ELSE IF listingTypes[i].listingType = value THEN i
    ELSE findFrom(listingTypes, value, i + 1)

find(listingTypes, value) == findFrom(listingTypes, value, 1)

\* formApi.change(name, value)
change(formValues, name, value) == [formValues EXCEPT ![name] = value]

\* Variant: the callback is invoked without testing hasProcessChanged
handleOnChangeAlwaysCalls(formValues, listingTypes, onProcessChange, value) ==
    LET idx == find(listingTypes, value)
        selectedListingType == listingTypes[idx]
        v1 == change(formValues, "transactionProcessAlias",
                     selectedListingType.transactionProcessAlias)
        v2 == change(v1, "unitType", selectedListingType.unitType)
    IN  IF idx = 0
        THEN [values |-> formValues, calls |-> <<>>, threw |-> TRUE]
        ELSE [values |-> v2,
              calls |-> IF onProcessChange
                        THEN <<selectedListingType.transactionProcessAlias>>
                        ELSE <<>>,
              threw |-> FALSE]

\* Variant: unitType is not changed
handleOnChangeKeepsUnitType(formValues, listingTypes, onProcessChange, value) ==
    LET transactionProcessAlias == formValues.transactionProcessAlias
        idx == find(listingTypes, value)
        selectedListingType == listingTypes[idx]
        v1 == change(formValues, "transactionProcessAlias",
                     selectedListingType.transactionProcessAlias)
        hasProcessChanged ==
            transactionProcessAlias # selectedListingType.transactionProcessAlias
    IN  IF idx = 0
        THEN [values |-> formValues, calls |-> <<>>, threw |-> TRUE]
        ELSE [values |-> v1,
              calls |-> IF onProcessChange /\ hasProcessChanged
                        THEN <<selectedListingType.transactionProcessAlias>>
                        ELSE <<>>,
              threw |-> FALSE]

\* handleOnChange(value), run on the form values `formValues`: the values it
\* leaves, the onProcessChange calls it makes (their arguments, in order), and
\* whether it throws (the TypeError of reading a property of undefined when
\* find returns undefined; nothing is changed before the throw)
handleOnChange(formValues, listingTypes, onProcessChange, value) ==
    LET transactionProcessAlias == formValues.transactionProcessAlias
        idx == find(listingTypes, value)
        selectedListingType == listingTypes[idx]
        v1 == change(formValues, "transactionProcessAlias",
                     selectedListingType.transactionProcessAlias)
        v2 == change(v1, "unitType", selectedListingType.unitType)
        hasProcessChanged ==
            transactionProcessAlias # selectedListingType.transactionProcessAlias
    IN  IF idx = 0
        THEN [values |-> formValues, calls |-> <<>>, threw |-> TRUE]
        ELSE [values |-> v2,
              calls |-> IF onProcessChange /\ hasProcessChanged
                        THEN <<selectedListingType.transactionProcessAlias>>
                        ELSE <<>>,
              threw |-> FALSE]

----------------------------------------------------------------------------
(* AddCustomExtendedDataFields *)

\* util/types.js, EXTENDED_DATA_SCHEMA_TYPES
EXTENDED_DATA_SCHEMA_TYPES == {"enum", "multi-enum", "text", "long", "boolean"}

\* Array.prototype.includes on an array of strings
includes(array, x) == \E i \in 1..Len(array) : array[i] = x

\* `extendedDataConfig || {}` followed by the destructuring: a null entry
\* reads every property as undefined
entryProps(extendedDataConfig) ==
    IF extendedDataConfig = None
    THEN [key |-> Undefined, includeForListingTypes |-> None,
          schemaType |-> Undefined, scope |-> Undefined]
    ELSE Get(extendedDataConfig)

\* Variant: the scope is not tested
pickFieldIgnoresScope(pickedFields, listingType, extendedDataConfig) ==
    LET e == entryProps(extendedDataConfig)
        isKnownSchemaType == e.schemaType \in EXTENDED_DATA_SCHEMA_TYPES
        isTargetProcessAlias ==
            \/ e.includeForListingTypes = None
            \/ includes(Get(e.includeForListingTypes), listingType)
    IN  IF isKnownSchemaType /\ isTargetProcessAlias
        THEN Append(pickedFields,
                    [key |-> e.key, name |-> e.key, fieldConfig |-> extendedDataConfig])
        ELSE pickedFields

\* One step of the reduce: pickedFields with the entry's field appended, or
\* pickedFields as it is
pickField(pickedFields, listingType, extendedDataConfig) ==
    LET e == entryProps(extendedDataConfig)
        isKnownSchemaType == e.schemaType \in EXTENDED_DATA_SCHEMA_TYPES
        isTargetProcessAlias ==
            \/ e.includeForListingTypes = None
            \/ includes(Get(e.includeForListingTypes), listingType)
        isProviderScope == e.scope \in {"public", "private"}
    IN  IF isKnownSchemaType /\ isTargetProcessAlias /\ isProviderScope
        THEN Append(pickedFields,
                    [key |-> e.key, name |-> e.key, fieldConfig |-> extendedDataConfig])
        ELSE pickedFields

\* extendedDataConfigs.reduce(..., []) from the left
RECURSIVE reduceFields(_, _, _, _)
reduceFields(extendedDataConfigs, listingType, pickedFields, i) ==
    IF i > Len(extendedDataConfigs) THEN pickedFields
    ELSE reduceFields(extendedDataConfigs, listingType,
                      pickField(pickedFields, listingType, extendedDataConfigs[i]),
                      i + 1)

\* The CustomExtendedDataField elements the component renders, in order
AddCustomExtendedDataFields(listingType, listingExtendedDataConfig) ==
    LET extendedDataConfigs ==
            IF listingExtendedDataConfig = None THEN <<>>
            ELSE Get(listingExtendedDataConfig)
    IN  reduceFields(extendedDataConfigs, listingType, <<>>, 1)

----------------------------------------------------------------------------
(* util/validators.js: required, maxLength, composeValidators *)

VALID == Undefined

\* required(message)(value): the message for a missing or empty value
required(message, value) ==
    IF value = Undefined \/ value = "" THEN message ELSE VALID

\* maxLength(message, maximumLength)(value): the message for a value longer
\* than maximumLength
maxLength(message, maximumLength, value) ==
    IF value = Undefined \/ value = "" THEN VALID
    ELSE IF Len(value) <= maximumLength THEN VALID ELSE message

\* composeValidators(...validators)(value), given each validator's result in
\* order: the first error
RECURSIVE composeValidators(_)
composeValidators(results) ==
    IF results = <<>> THEN VALID
    ELSE IF Head(results) # VALID THEN Head(results)
    ELSE composeValidators(Tail(results))

----------------------------------------------------------------------------
(* EditListingDetailsFormComponent *)

\* Variant: the title has the max-length validator only
titleValidateNoRequired(value) ==
    composeValidators(
        <<maxLength("EditListingDetailsForm.maxLength", TITLE_MAX_LENGTH, value)>>)

\* validate of the title FieldTextInput
titleValidate(value) ==
    composeValidators(
        <<required("EditListingDetailsForm.titleRequired", value),
          maxLength("EditListingDetailsForm.maxLength", TITLE_MAX_LENGTH, value)>>)

\* validate of the description FieldTextInput
descriptionValidate(value) ==
    required("EditListingDetailsForm.descriptionRequired", value)

\* validate of the listing-type FieldSelect
listingTypeValidate(value) ==
    required("EditListingDetailsForm.listingTypeRequired", value)

\* validate of a CustomExtendedDataField, which that component builds from
\* its fieldConfig
customFieldValidate(value) ==
    IF value = "rejected" THEN "CustomExtendedDataField.invalid" ELSE VALID

\* The validation error of each field; hidden fields have no validator
fieldErrors(p, formValues) ==
    [title |-> titleValidate(formValues.title),
     description |-> descriptionValidate(formValues.description),
     listingType |->
        IF FieldSelectListingType("listingType", p.selectableListingTypes,
                                  p.hasExistingListingType, formValues).select # None
        THEN listingTypeValidate(formValues.listingType)
        ELSE VALID,
     custom |-> customFieldValidate(formValues.custom)]

\* formRenderProps.invalid: some registered field has a validation error
invalid(p, formValues) ==
    \E f \in DOMAIN fieldErrors(p, formValues) : fieldErrors(p, formValues)[f] # VALID

\* formRenderProps.pristine: the values equal the initial values
pristine(p, formValues) == formValues = p.initialValues

\* Variant: ready after an update whether or not the form is pristine
submitReadyIgnoresPristine(p, formValues) == p.updated \/ p.ready

submitReady(p, formValues) == (p.updated /\ pristine(p, formValues)) \/ p.ready

submitInProgress(p) == p.updateInProgress

\* Variant: an update in progress does not disable the button
submitDisabledIgnoresProgress(p, formValues) ==
    invalid(p, formValues) \/ p.disabled

submitDisabled(p, formValues) ==
    invalid(p, formValues) \/ p.disabled \/ submitInProgress(p)

\* The props of the submit Button
Button(p, formValues) ==
    [inProgress |-> submitInProgress(p),
     disabled |-> submitDisabled(p, formValues),
     ready |-> submitReady(p, formValues)]

----------------------------------------------------------------------------
(* The inputs: props the component is mounted with, and what a user enters *)

ListingTypeConfigs ==
    {[listingType |-> "daily-booking", label |-> "Daily booking",
      transactionProcessAlias |-> "default-booking/release-1", unitType |-> "day"],
     [listingType |-> "product-selling", label |-> "Product selling",
      transactionProcessAlias |-> "default-purchase/release-1", unitType |-> "item"],
     [listingType |-> "product-selling", label |-> "Rental",
      transactionProcessAlias |-> "default-booking/release-1", unitType |-> "item"]}

ListingTypeIds == {c.listingType : c \in ListingTypeConfigs}

\* null, or a list of up to MaxTypes configurations
ListingTypeLists ==
    {None} \cup {Some(l) : l \in UNION {[1..k -> ListingTypeConfigs] : k \in 0..MaxTypes}}

DefaultListingTypes ==
    Some(<<[listingType |-> "daily-booking", label |-> "Daily booking",
            transactionProcessAlias |-> "default-booking/release-1", unitType |-> "day"],
           [listingType |-> "product-selling", label |-> "Product selling",
            transactionProcessAlias |-> "default-purchase/release-1", unitType |-> "item"]>>)

\* Titles of initial values: may be longer than the input's maxLength allows
InitialTitles ==
    {Undefined, ""}
    \cup {Repeat(n) : n \in {1, TITLE_MAX_LENGTH}
                          \cup (TITLE_MAX_LENGTH + 1 .. TITLE_MAX_LENGTH + MaxTitleOver)}

\* Titles a user can enter: the input has maxLength={TITLE_MAX_LENGTH}
TypedTitles == {Undefined, Repeat(1), Repeat(TITLE_MAX_LENGTH)}

Descriptions == {Undefined, "d"}

\* Values of a custom field: none, one its validator accepts, one it rejects
CustomValues == {Undefined, "accepted", "rejected"}

\* The values of a new listing
NoValues ==
    [title |-> Undefined, description |-> Undefined, listingType |-> Undefined,
     transactionProcessAlias |-> Undefined, unitType |-> Undefined, custom |-> Undefined]

\* Initial listingType, transactionProcessAlias and unitType: none, or those
\* of a listing type (which need not be selectable any more)
InitialListingTypeValues ==
    {NoValues}
    \cup {[NoValues EXCEPT !.listingType = c.listingType,
                            !.transactionProcessAlias = c.transactionProcessAlias,
                            !.unitType = c.unitType] : c \in ListingTypeConfigs}

FetchErrors ==
    {None} \cup {Some(f) : f \in [updateListingError : BOOLEAN,
                                  createListingDraftError : BOOLEAN,
                                  showListingsError : BOOLEAN]}

\* Entries of listingExtendedDataConfig: null, and configurations that pass
\* or fail each of the three conditions
ExtendedDataConfigs ==
    {None,
     Some([key |-> "category", schemaType |-> "enum", scope |-> "public",
           includeForListingTypes |-> None]),
     Some([key |-> "bookingNotes", schemaType |-> "text", scope |-> "private",
           includeForListingTypes |-> Some(<<"daily-booking">>)]),
     Some([key |-> "brand", schemaType |-> "text", scope |-> "public",
           includeForListingTypes |-> Some(<<"product-selling">>)]),
     Some([key |-> "tags", schemaType |-> "multi-enum", scope |-> "public",
           includeForListingTypes |-> Some(<<"daily-booking", "product-selling">>)]),
     Some([key |-> "nowhere", schemaType |-> "long", scope |-> "public",
           includeForListingTypes |-> Some(<<>>)]),
     Some([key |-> "rating", schemaType |-> "float", scope |-> "public",
           includeForListingTypes |-> None]),
     Some([key |-> "verified", schemaType |-> "boolean", scope |-> "metadata",
           includeForListingTypes |-> None])}

ExtendedDataConfigLists ==
    {None} \cup {Some(l) : l \in UNION {[1..k -> ExtendedDataConfigs] : k \in 0..MaxFields}}

\* EditListingDetailsFormComponent.defaultProps, with the required props at
\* the values of a new listing on a marketplace with two listing types
DefaultProps ==
    [selectableListingTypes |-> DefaultListingTypes,
     hasExistingListingType |-> FALSE,
     onProcessChange |-> TRUE,
     listingExtendedDataConfig |-> None,
     fetchErrors |-> None,
     disabled |-> FALSE, ready |-> FALSE, updated |-> FALSE, updateInProgress |-> FALSE,
     initialValues |-> NoValues]

----------------------------------------------------------------------------
(* The state machine *)

listingTypeField(p, formValues) ==
    FieldSelectListingType("listingType", p.selectableListingTypes,
                           p.hasExistingListingType, formValues)

NoSelection == [count |-> 0, value |-> Undefined, aliasBefore |-> Undefined, callsBefore |-> 0]

Mounted(p) ==
    /\ props = p
    /\ values = p.initialValues
    /\ callLog = <<>>
    /\ last = NoSelection
    /\ threw = FALSE

\* Mounted with each list of listing types, with and without an existing
\* listing type and a callback
InitListingTypes ==
    \E l \in ListingTypeLists, e \in BOOLEAN, cb \in BOOLEAN, iv \in InitialListingTypeValues :
        Mounted([DefaultProps EXCEPT !.selectableListingTypes = l,
                                     !.hasExistingListingType = e,
                                     !.onProcessChange = cb,
                                     !.initialValues = iv])

\* Mounted in each state of the submit pipeline, with each initial title and
\* description
InitSubmit ==
    \E d \in BOOLEAN, r \in BOOLEAN, u \in BOOLEAN, ip \in BOOLEAN,
       t \in InitialTitles, ds \in Descriptions :
        Mounted([DefaultProps EXCEPT !.disabled = d, !.ready = r, !.updated = u,
                                     !.updateInProgress = ip,
                                     !.initialValues = [NoValues EXCEPT !.title = t,
                                                                        !.description = ds]])

\* Mounted with each container of error flags
InitFetchErrors ==
    \E f \in FetchErrors : Mounted([DefaultProps EXCEPT !.fetchErrors = f])

\* Mounted with each extended-data configuration
InitExtendedData ==
    \E c \in ExtendedDataConfigLists :
        Mounted([DefaultProps EXCEPT !.listingExtendedDataConfig = c])

Init == InitListingTypes \/ InitSubmit \/ InitFetchErrors \/ InitExtendedData

\* The user types into the title input
EditTitle ==
    /\ \E t \in TypedTitles : values' = change(values, "title", t)
    /\ UNCHANGED <<props, callLog, last, threw>>

\* The user types into the description textarea
EditDescription ==
    /\ \E d \in Descriptions : values' = change(values, "description", d)
    /\ UNCHANGED <<props, callLog, last, threw>>

\* The user edits a custom field
EditCustomField ==
    /\ \E v \in CustomValues : values' = change(values, "custom", v)
    /\ UNCHANGED <<props, callLog, last, threw>>

\* The user picks an enabled option of the listing-type select: the field
\* takes the option's value and handleOnChange runs with it
SelectListingType ==
    /\ last.count < MaxSelections
    /\ listingTypeField(props, values).select # None
    /\ \E i \in 1..Len(Get(listingTypeField(props, values).select).options) :
          LET option == Get(listingTypeField(props, values).select).options[i]
              r == handleOnChange(change(values, "listingType", option.value),
                                  Get(props.selectableListingTypes),
                                  props.onProcessChange, option.value)
          IN  /\ ~option.disabled
              /\ values' = r.values
              /\ callLog' = callLog \o r.calls
              /\ threw' = (threw \/ r.threw)
              /\ last' = [count |-> last.count + 1, value |-> option.value,
                          aliasBefore |-> values.transactionProcessAlias,
                          callsBefore |-> Len(callLog)]
    /\ UNCHANGED props

Next == EditTitle \/ EditDescription \/ EditCustomField \/ SelectListingType

Spec == Init /\ [][Next]_vars

----------------------------------------------------------------------------
(* Properties *)

\* What the form shows in the current state
shownError == ErrorMessage(props.fetchErrors)
shownListingType == listingTypeField(props, values)
shownFields == AddCustomExtendedDataFields(values.listingType, props.listingExtendedDataConfig)
shownButton == Button(props, values)

\* The number of selectable listing types, none when the list is missing
nListingTypes ==
    IF props.selectableListingTypes = None THEN 0 ELSE Len(Get(props.selectableListingTypes))

\* Whether a flag of fetchErrors is set
flag(name) == props.fetchErrors # None /\ Get(props.fetchErrors)[name]

\* C1: ErrorMessage shows no message when fetchErrors is null or no flag is
\* set, and otherwise exactly one: updateFailed when updateListingError is
\* set, else createListingDraftError when createListingDraftError is set, else
\* showListingFailed.
C1_ErrorMessageByPriority ==
    /\ shownError \in {None, Some("EditListingDetailsForm.updateFailed"),
                       Some("EditListingDetailsForm.createListingDraftError"),
                       Some("EditListingDetailsForm.showListingFailed")}
    /\ shownError = None <=>
          ~(flag("updateListingError") \/ flag("createListingDraftError")
              \/ flag("showListingsError"))
    /\ shownError = Some("EditListingDetailsForm.updateFailed") <=>
          flag("updateListingError")
    /\ shownError = Some("EditListingDetailsForm.createListingDraftError") <=>
          (~flag("updateListingError") /\ flag("createListingDraftError"))
    /\ shownError = Some("EditListingDetailsForm.showListingFailed") <=>
          (~flag("updateListingError") /\ ~flag("createListingDraftError")
              /\ flag("showListingsError"))

\* All three flags set, the form in use: only updateFailed is shown
C1_Witness ==
    /\ flag("updateListingError") /\ flag("createListingDraftError")
    /\ flag("showListingsError")
    /\ shownError = Some("EditListingDetailsForm.updateFailed")
    /\ values # props.initialValues

\* The configuration a selected value stands for: the first one of
\* selectableListingTypes with that listingType
IsConfigOf(value, i) ==
    LET l == Get(props.selectableListingTypes)
    IN  /\ i \in 1..Len(l)
        /\ l[i].listingType = value
        /\ \A j \in 1..(i - 1) : l[j].listingType # value

\* The onProcessChange calls of the most recent selection
lastCalls == SubSeq(callLog, last.callsBefore + 1, Len(callLog))

\* C2: a selection invokes onProcessChange if and only if a callback was
\* supplied and the transactionProcessAlias held before the selection differs
\* from that of the selected listing type; then once, with the new alias.
C2_ProcessChangeCallback ==
    last.count > 0 =>
        /\ Len(callLog) <= last.count
        /\ \E i \in 1..nListingTypes :
              /\ IsConfigOf(last.value, i)
              /\ LET new == Get(props.selectableListingTypes)[i].transactionProcessAlias
                 IN  lastCalls = IF props.onProcessChange /\ last.aliasBefore # new
                                 THEN <<new>>
                                 ELSE <<>>

\* With a callback supplied, an earlier selection changed the process and
\* invoked it, and the latest one changed the listing type but not the
\* process, and did not
C2_Witness ==
    /\ props.onProcessChange
    /\ last.count >= 2
    /\ last.callsBefore >= 1
    /\ last.aliasBefore = values.transactionProcessAlias
    /\ lastCalls = <<>>

\* C4: after every selection the form's transactionProcessAlias and unitType
\* are those of the first configuration whose listingType is the selected
\* value, which is the form's listingType.
C4_HiddenFieldsFollowSelection ==
    last.count > 0 =>
        /\ values.listingType = last.value
        /\ \E i \in 1..nListingTypes :
              /\ IsConfigOf(values.listingType, i)
              /\ values.transactionProcessAlias =
                    Get(props.selectableListingTypes)[i].transactionProcessAlias
              /\ values.unitType = Get(props.selectableListingTypes)[i].unitType

\* After a second selection, of a listing type that two configurations with
\* different transaction processes share
C4_Witness ==
    /\ last.count >= 2
    /\ \E i, j \in 1..nListingTypes :
          /\ i < j
          /\ IsConfigOf(values.listingType, i)
          /\ Get(props.selectableListingTypes)[j].listingType = values.listingType
          /\ Get(props.selectableListingTypes)[j].transactionProcessAlias
                # values.transactionProcessAlias

\* C10: every option of the select that can be chosen carries the listingType
\* of a configuration, the placeholder (value "") is disabled, and
\* handleOnChange has never failed on a missing configuration.
C10_SelectionsResolve ==
    /\ ~threw
    /\ shownListingType.select # None =>
          LET options == Get(shownListingType.select).options
          IN  /\ options[1].value = "" /\ options[1].disabled
              /\ \A k \in 1..Len(options) :
                    \/ options[k].disabled /\ options[k].value = ""
                    \/ /\ ~options[k].disabled
                       /\ \E i \in 1..nListingTypes :
                             Get(props.selectableListingTypes)[i].listingType
                                = options[k].value

\* Every selection allowed was made, and the handler did not fail
C10_Witness == last.count = MaxSelections /\ ~threw /\ values.listingType = last.value

\* A missing or empty value
IsEmpty(value) == value = Undefined \/ value = ""

\* C3: the title is invalid when empty (the required message) and when longer
\* than TITLE_MAX_LENGTH (the max-length message), the description when empty,
\* the listingType when empty and the select is shown; otherwise these fields
\* have no validation error.
C3_FieldValidation ==
    LET errors == fieldErrors(props, values)
    IN  /\ IsEmpty(values.title) =>
              errors.title = "EditListingDetailsForm.titleRequired"
        /\ (~IsEmpty(values.title) /\ Len(values.title) > 60) =>
              errors.title = "EditListingDetailsForm.maxLength"
        /\ (~IsEmpty(values.title) /\ Len(values.title) <= 60) => errors.title = VALID
        /\ IsEmpty(values.description) =>
              errors.description = "EditListingDetailsForm.descriptionRequired"
        /\ ~IsEmpty(values.description) => errors.description = VALID
        /\ (nListingTypes > 1 /\ ~props.hasExistingListingType
               /\ IsEmpty(values.listingType)) =>
              errors.listingType = "EditListingDetailsForm.listingTypeRequired"
        /\ (~(nListingTypes > 1 /\ ~props.hasExistingListingType)
               \/ ~IsEmpty(values.listingType)) =>
              errors.listingType = VALID

\* A title of 61 characters with a description entered and a listing type
\* selected: only the title is in error
C3_Witness ==
    /\ Len(values.title) = TITLE_MAX_LENGTH + 1
    /\ values.description = "d"
    /\ last.count > 0
    /\ fieldErrors(props, values).title = "EditListingDetailsForm.maxLength"
    /\ fieldErrors(props, values).description = VALID
    /\ fieldErrors(props, values).listingType = VALID

\* C5: the select is rendered exactly when there is more than one listing
\* type and no existing listing type, with the disabled placeholder and one
\* option per configuration; the read-only value exactly when there is more
\* than one and an existing listing type; otherwise hidden fields only.
\* transactionProcessAlias and unitType are hidden fields in every mode,
\* listingType in the two modes without the select.
C5_RenderModes ==
    LET r == shownListingType
        hiddenNames == {r.hidden[k] : k \in 1..Len(r.hidden)}
    IN  /\ r.select # None <=> (nListingTypes > 1 /\ ~props.hasExistingListingType)
        /\ r.selectedValue # None <=> (nListingTypes > 1 /\ props.hasExistingListingType)
        /\ ~(r.select # None /\ r.selectedValue # None)
        /\ r.selectedValue # None => r.selectedValue = Some(values.listingType)
        /\ r.select # None =>
              LET options == Get(r.select).options
                  l == Get(props.selectableListingTypes)
              IN  /\ Len(options) = nListingTypes + 1
                  /\ options[1].value = "" /\ options[1].disabled
                  /\ \A i \in 1..nListingTypes :
                        /\ options[i + 1].value = l[i].listingType
                        /\ options[i + 1].label = l[i].label
                        /\ ~options[i + 1].disabled
        /\ {"transactionProcessAlias", "unitType"} \subseteq hiddenNames
        /\ "listingType" \in hiddenNames <=> r.select = None
        /\ Len(r.hidden) = Cardinality(hiddenNames)

\* An existing listing type among several selectable ones, the form in use:
\* the value is shown read-only
C5_Witness ==
    /\ nListingTypes > 1
    /\ props.hasExistingListingType
    /\ values.listingType # Undefined
    /\ shownListingType.selectedValue = Some(values.listingType)
    /\ shownListingType.select = None
    /\ values.title # props.initialValues.title

\* Whether an entry of listingExtendedDataConfig is to be rendered for the
\* listing type
Passes(entry, listingType) ==
    /\ entry # None
    /\ Get(entry).schemaType \in EXTENDED_DATA_SCHEMA_TYPES
    /\ Get(entry).scope \in {"public", "private"}
    /\ \/ Get(entry).includeForListingTypes = None
       \/ \E k \in 1..Len(Get(Get(entry).includeForListingTypes)) :
             Get(Get(entry).includeForListingTypes)[k] = listingType

\* C6: the custom fields rendered are, in the order of the configuration
\* list, one per entry whose schemaType is known, whose scope is public or
\* private and whose includeForListingTypes is null or contains the form's
\* current listingType; none for a null list.
C6_CustomFieldsFilter ==
    LET l == IF props.listingExtendedDataConfig = None THEN <<>>
             ELSE Get(props.listingExtendedDataConfig)
        passing == {i \in 1..Len(l) : Passes(l[i], values.listingType)}
    IN  /\ Len(shownFields) = Cardinality(passing)
        /\ \E pos \in [1..Len(shownFields) -> passing] :
              /\ \A a, b \in 1..Len(shownFields) : a < b => pos[a] < pos[b]
              /\ \A a \in 1..Len(shownFields) :
                    /\ shownFields[a].fieldConfig = l[pos[a]]
                    /\ shownFields[a].key = Get(l[pos[a]]).key
                    /\ shownFields[a].name = Get(l[pos[a]]).key
        /\ values.listingType = Undefined =>
              \A a \in 1..Len(shownFields) :
                 Get(shownFields[a].fieldConfig).includeForListingTypes = None

\* After a selection, a field restricted to the selected listing type is
\* rendered and an entry restricted to another one is not
C6_Witness ==
    /\ last.count > 0
    /\ props.listingExtendedDataConfig # None
    /\ Len(Get(props.listingExtendedDataConfig)) = 2
    /\ Len(shownFields) = 1
    /\ Get(shownFields[1].fieldConfig).includeForListingTypes = Some(<<values.listingType>>)
    /\ Get(props.listingExtendedDataConfig)[1] # None
    /\ Get(Get(props.listingExtendedDataConfig)[1]).includeForListingTypes
          \notin {None, Some(<<values.listingType>>), Some(<<>>)}
    /\ Get(Get(props.listingExtendedDataConfig)[1]).scope = "public"
    /\ Get(Get(props.listingExtendedDataConfig)[1]).schemaType = "text"

\* C7: with an existing listing type, or fewer than two selectable listing
\* types, handleOnChange never runs: listingType, transactionProcessAlias and
\* unitType keep their initial values and onProcessChange is never invoked.
C7_NoSelectionOffered ==
    (props.hasExistingListingType \/ nListingTypes < 2) =>
        /\ last.count = 0
        /\ callLog = <<>>
        /\ values.listingType = props.initialValues.listingType
        /\ values.transactionProcessAlias = props.initialValues.transactionProcessAlias
        /\ values.unitType = props.initialValues.unitType

\* Several listing types but an existing one, and every other field edited
C7_Witness ==
    /\ props.hasExistingListingType
    /\ nListingTypes >= 2
    /\ values.title # props.initialValues.title
    /\ values.description # props.initialValues.description
    /\ values.custom # props.initialValues.custom

\* C8: the submit button is disabled exactly when the form is invalid, the
\* disabled prop is set or an update is in progress, so never enabled while a
\* field's validation fails or an update is in progress; its in-progress
\* indicator is shown exactly when updateInProgress is set.
C8_SubmitDisabled ==
    /\ shownButton.disabled <=>
          (invalid(props, values) \/ props.disabled \/ props.updateInProgress)
    /\ (\E f \in {"title", "description", "listingType", "custom"} :
           fieldErrors(props, values)[f] # VALID) => shownButton.disabled
    /\ props.updateInProgress => shownButton.disabled
    /\ shownButton.inProgress <=> props.updateInProgress

\* A valid form, not disabled by the prop, while an update is in progress
C8_Witness ==
    /\ ~invalid(props, values)
    /\ ~props.disabled
    /\ props.updateInProgress
    /\ shownButton.disabled
    /\ last.count > 0

\* C9: the submit button is ready exactly when the ready prop is set, or the
\* updated prop is set and the values are the initial values.
C9_SubmitReady ==
    shownButton.ready <=>
        (props.ready \/ (props.updated /\ values = props.initialValues))

\* After an update (updated, not ready) the form was edited: not ready
C9_Witness ==
    /\ props.updated
    /\ ~props.ready
    /\ values # props.initialValues
    /\ ~shownButton.ready

====
